---- MODULE Spec2Model ----
(***************************************************************************)
(* State-machine model of the telephony-to-voice-assistant bridge:        *)
(*   backend/app.py       HTTP / WebSocket front door, call initiator     *)
(*   backend/bot.py       stream bridge, pipeline callbacks, audio        *)
(*                        archival                                        *)
(*   backend/make_call.py CLI caller                                      *)
(* Specifications:                                                        *)
(*   Spec      WS /stream front door: initial message, bridge, exit       *)
(*   IsoSpec   concurrent bridged sessions and their pipeline events      *)
(*   PipeSpec  pipeline callbacks whose awaited calls may raise           *)
(*   RecSpec   audio archival while the clock runs                        *)
(*   CallSpec  module start-up configuration and POST /start-call         *)
(*   CliSpec   the make_call.py command line                              *)
(***************************************************************************)
EXTENDS Integers, Sequences, FiniteSets, TLC

\* ------------------------------------------------------------------ bounds
NumSessions == 2      \* concurrent WebSocket connections
MaxEvents == 2        \* pipeline events (turn, audio, flush) per session
MaxAudio == 1         \* PCM chunks an audio buffer holds before a flush
MaxClock == 2         \* wall-clock ticks
TicksPerSecond == 2   \* clock ticks in one second of strftime's resolution
MaxCalls == 2         \* POST /start-call requests
NumFailing == 1       \* sessions whose awaited calls may raise

Sessions == 1..NumSessions

\* ------------------------------------------------------- Python values
PyNone == [t |-> "none"]
Absent == [t |-> "absent"]
JNull == [t |-> "null"]
JArr == [t |-> "arr"]
JStr(s) == [t |-> "str", v |-> s]
JObj(f) == [t |-> "obj", f |-> f]

Ok(x) == [ok |-> TRUE, val |-> x]
Raise(e) == [ok |-> FALSE, exc |-> e]

\* Exception classes the awaited calls can raise. CancelledError derives
\* from BaseException only; the others derive from Exception.
Exceptions == {"OSError", "CancelledError"}
CallbackExceptions == Exceptions \cup {"RuntimeError"}
IsException(e) == e # "CancelledError"

\* `except Exception as e:` -- the filter of every handler in the code.
CatchesOSError(e) == e = "OSError"
ExceptCatches(e) == IsException(e)

\* ------------------------------------------- initial WebSocket messages
StreamIdValues == {JStr("s1"), JStr("s2")}
EventValues == {Absent, JStr("start"), JStr("media")}
StartValues ==
  {Absent, JStr("x"), JObj(<< >>)} \cup {JObj([streamId |-> v]) : v \in StreamIdValues}

Field(k, v) == IF v = Absent THEN << >> ELSE k :> v

Docs ==
  {JNull, JArr, JStr("start")}
    \cup {JObj(Field("event", ev) @@ Field("start", st)) :
            ev \in EventValues, st \in StartValues}

Texts == {[json |-> FALSE]} \cup {[json |-> TRUE, doc |-> d] : d \in Docs}

Messages ==
  {[type |-> "websocket.disconnect"],
   [type |-> "websocket.receive", bytes |-> "b"],
   [type |-> "websocket.receive", text |-> PyNone]}
    \cup {[type |-> "websocket.receive", text |-> x] : x \in Texts}

NoMsg == [type |-> "none"]

\* message.get('text', None)
MsgGetText(m) == IF "text" \in DOMAIN m THEN m.text ELSE PyNone

\* json.loads(text)
json_loads(x) == IF x.json THEN Ok(x.doc) ELSE Raise("JSONDecodeError")

\* v[k] on a parsed JSON value
Subscript(v, k) ==
  IF v.t = "obj"
    THEN IF k \in DOMAIN v.f THEN Ok(v.f[k]) ELSE Raise("KeyError")
    ELSE Raise("TypeError")

\* v == "start"
PyEqStr(v, s) == v.t = "str" /\ v.v = s

Rejected(path) == [bot |-> FALSE, path |-> path]
Bridge(sid) == [bot |-> TRUE, sid |-> sid]

\* Which stream identifier the handler hands to run_bot.
ExtractWrongField(d) == Subscript(d, "event")
ExtractStreamId(d) ==
  LET st == Subscript(d, "start")
  IN IF st.ok THEN Subscript(st.val, "streamId") ELSE st

\* The body of websocket_endpoint between receive() and run_bot().
HandleInitial(m) ==
  LET x == MsgGetText(m)
  IN IF x = PyNone THEN Rejected("no_text")
     ELSE LET d == json_loads(x)
          IN IF ~d.ok THEN Rejected("except")
             ELSE LET ev == Subscript(d.val, "event")
                  IN IF ~ev.ok THEN Rejected("except")
                     ELSE IF PyEqStr(ev.val, "start")
                       THEN LET sid == ExtractStreamId(d.val)
                            IN IF sid.ok THEN Bridge(sid.val) ELSE Rejected("except")
                       ELSE Rejected("not_start")

\* ------------------------------------------------------------- state
VARIABLES
  pc,          \* per session: idle, receive, running, done
  ws,          \* per session: unopened, connected, closed
  port,        \* per session: websocket.client.port
  received,    \* per session: the initial message read
  botCalls,    \* per session: the stream_sid of every run_bot invocation
  endpointExc, \* per session: exception that left websocket_endpoint
  ctxOf,       \* per session: id of its messages list / context
  bufOf,       \* per session: id of its AudioBufferProcessor
  taskOf,      \* per session: id of its PipelineTask
  nextId,      \* object allocator
  lists,       \* id -> conversation messages
  bufs,        \* id -> [recording, data]
  cancelBy,    \* task id -> sessions whose disconnect called cancel() on it
  queued,      \* per session: frames queued on its task
  connected,   \* per session: on_client_connected has run
  disconnected,\* per session: on_client_disconnected has run
  nEv,         \* per session: pipeline events so far
  cbResult,    \* the latest callback run: what was raised in it, how it ended
  clock,       \* wall clock, in ticks
  files,       \* recordings directory: file name -> content
  written,     \* completed save_audio writes, in order
  env,         \* process environment at start-up
  callLog,     \* requests issued to the telephony provider
  responses,   \* bodies returned by POST /start-call
  callRaised,  \* POST /start-call raised to its caller
  cli          \* the CLI run: inputs, output, exit status

streamVars ==
  <<pc, ws, port, received, botCalls, endpointExc, ctxOf, bufOf, taskOf, nextId,
    lists, bufs, cancelBy, queued, connected, disconnected, nEv, cbResult,
    clock, files, written>>
callVars == <<env, callLog, responses, callRaised>>
cliVars == <<cli>>
vars == <<streamVars, callVars, cliVars>>

\* ------------------------------------------------------ stream sessions
Ports == {"50001", "50002"}
ClientPorts == Ports
Chunks == {"a", "b"}
Channels == {1}
Roles == {"user", "assistant"}
SetupExceptions == {"ValueError"}
AudioSampleRate == 16000
SampleWidth == 2

NoCallback == [cb |-> "none", raised |-> "none", out |-> "returned"]

StreamInit ==
  /\ pc = [s \in Sessions |-> "idle"]
  /\ ws = [s \in Sessions |-> "unopened"]
  /\ port = [s \in Sessions |-> "None"]
  /\ received = [s \in Sessions |-> NoMsg]
  /\ botCalls = [s \in Sessions |-> << >>]
  /\ endpointExc = [s \in Sessions |-> "none"]
  /\ ctxOf = [s \in Sessions |-> 0]
  /\ bufOf = [s \in Sessions |-> 0]
  /\ taskOf = [s \in Sessions |-> 0]
  /\ nextId = 1
  /\ lists = << >>
  /\ bufs = << >>
  /\ cancelBy = << >>
  /\ queued = [s \in Sessions |-> 0]
  /\ connected = [s \in Sessions |-> FALSE]
  /\ disconnected = [s \in Sessions |-> FALSE]
  /\ nEv = [s \in Sessions |-> 0]
  /\ cbResult = NoCallback
  /\ clock = 0
  /\ files = << >>
  /\ written = << >>

\* await websocket.accept(), up to the suspension in websocket.receive()
Accept(s, p) ==
  /\ pc[s] = "idle"
  /\ pc' = [pc EXCEPT ![s] = "receive"]
  /\ ws' = [ws EXCEPT ![s] = "connected"]
  /\ port' = [port EXCEPT ![s] = p]
  /\ UNCHANGED <<received, botCalls, endpointExc, ctxOf, bufOf, taskOf, nextId, lists,
                 bufs, cancelBy, queued, connected, disconnected, nEv, cbResult,
                 clock, files, written>>

\* The objects one run_bot invocation creates: `messages = [...]`,
\* AudioBufferProcessor(...), PipelineTask(...). Each is a fresh object.
SharedObject(n) == 1
FreshObject(n) == n

\* The task the on_client_disconnected closure of session s refers to.
LatestTask(s) == nextId - 1
TaskCapturedBy(s) == taskOf[s]

\* The initial message arrives: the rest of websocket_endpoint and, for a
\* "start" event, run_bot up to the suspension in runner.run(task).
ReceiveInitial(s, m, fail) ==
  /\ pc[s] = "receive"
  /\ received' = [received EXCEPT ![s] = m]
  /\ ws' = [ws EXCEPT ![s] = IF m.type = "websocket.disconnect" THEN "closed" ELSE @]
  /\ LET h == HandleInitial(m)
     IN IF h.bot
          THEN /\ botCalls' = [botCalls EXCEPT ![s] = Append(@, h.sid)]
               /\ IF fail = "none"
                    THEN LET id == FreshObject(nextId)
                         IN /\ ctxOf' = [ctxOf EXCEPT ![s] = id]
                            /\ bufOf' = [bufOf EXCEPT ![s] = id]
                            /\ taskOf' = [taskOf EXCEPT ![s] = id]
                            /\ lists' = (id :> <<"system">>) @@ lists
                            /\ bufs' = (id :> [recording |-> FALSE, data |-> << >>]) @@ bufs
                            /\ cancelBy' = (id :> {}) @@ cancelBy
                            /\ nextId' = nextId + 1
                            /\ pc' = [pc EXCEPT ![s] = "running"]
                            /\ UNCHANGED endpointExc
                    ELSE \* a constructor raised: run_bot propagates it to the
                         \* endpoint's `except Exception`
                         /\ pc' = [pc EXCEPT ![s] = "done"]
                         /\ endpointExc' =
                              [endpointExc EXCEPT ![s] = IF ExceptCatches(fail) THEN @ ELSE fail]
                         /\ UNCHANGED <<ctxOf, bufOf, taskOf, lists, bufs, cancelBy, nextId>>
          ELSE /\ fail = "none"
               /\ pc' = [pc EXCEPT ![s] = "done"]
               /\ UNCHANGED <<botCalls, endpointExc, ctxOf, bufOf, taskOf, lists, bufs,
                              cancelBy, nextId>>
  /\ UNCHANGED <<port, queued, connected, disconnected, nEv, cbResult, clock,
                 files, written>>

\* try: ... except Exception as e: logger.error(...) around a callback body
\* in which exception e was raised ("none": the body completed).
TryExcept(cb, e) ==
  cbResult' =
    [cb |-> cb, raised |-> e,
     out |-> IF e = "none" \/ ExceptCatches(e) THEN "returned" ELSE "propagated"]

ConnectSteps == {"none", "start_recording", "queue_frames"}

\* on_client_connected; `at` is the awaited call that raises e.
OnClientConnected(s, at, e) ==
  /\ pc[s] = "running"
  /\ ~connected[s]
  /\ (at = "none") = (e = "none")
  /\ connected' = [connected EXCEPT ![s] = TRUE]
  /\ IF at = "start_recording"
       THEN UNCHANGED <<bufs, lists, queued>>
       ELSE /\ bufs' = [bufs EXCEPT ![bufOf[s]].recording = TRUE]
            /\ lists' = [lists EXCEPT ![ctxOf[s]] = Append(@, "introduce")]
            /\ queued' = [queued EXCEPT ![s] = IF at = "none" THEN @ + 1 ELSE @]
  /\ TryExcept("on_client_connected", e)
  /\ UNCHANGED <<pc, ws, port, received, botCalls, endpointExc, ctxOf, bufOf, taskOf,
                 nextId, cancelBy, disconnected, nEv, clock, files, written>>

\* The client goes away: the transport fires on_client_disconnected, which
\* awaits task.cancel(); e is what that call raises.
OnClientDisconnected(s, e) ==
  /\ pc[s] = "running"
  /\ ~disconnected[s]
  /\ disconnected' = [disconnected EXCEPT ![s] = TRUE]
  /\ ws' = [ws EXCEPT ![s] = "closed"]
  /\ cancelBy' = [cancelBy EXCEPT ![TaskCapturedBy(s)] = @ \cup {s}]
  /\ TryExcept("on_client_disconnected", e)
  /\ UNCHANGED <<pc, port, received, botCalls, endpointExc, ctxOf, bufOf, taskOf, nextId,
                 lists, bufs, queued, connected, nEv, clock, files, written>>

\* The context aggregators append a user or assistant turn.
TurnAppended(s, role) ==
  /\ pc[s] = "running"
  /\ nEv[s] < MaxEvents
  /\ nEv' = [nEv EXCEPT ![s] = @ + 1]
  /\ lists' = [lists EXCEPT ![ctxOf[s]] = Append(@, role)]
  /\ UNCHANGED <<pc, ws, port, received, botCalls, endpointExc, ctxOf, bufOf, taskOf,
                 nextId, bufs, cancelBy, queued, connected, disconnected, cbResult,
                 clock, files, written>>

\* The audio buffer stage accumulates a chunk while recording.
AudioBuffered(s, chunk) ==
  /\ pc[s] = "running"
  /\ nEv[s] < MaxEvents
  /\ bufs[bufOf[s]].recording
  /\ Len(bufs[bufOf[s]].data) < MaxAudio
  /\ nEv' = [nEv EXCEPT ![s] = @ + 1]
  /\ bufs' = [bufs EXCEPT ![bufOf[s]].data = Append(@, chunk)]
  /\ UNCHANGED <<pc, ws, port, received, botCalls, endpointExc, ctxOf, bufOf, taskOf,
                 nextId, lists, cancelBy, queued, connected, disconnected, cbResult,
                 clock, files, written>>

\* datetime.datetime.now().strftime('%Y%m%d_%H%M%S'): whole seconds only
Strftime(now) == ToString(now \div TicksPerSecond)

\* recordings_dir / f"{server_name}_recording_{...}.wav"
FileName(server_name, now) == server_name \o "_recording_" \o Strftime(now) \o ".wav"

\* The WAV container wave.open(...) writes into the in-memory buffer.
Wav(audio, sample_rate, num_channels) ==
  [sampwidth |-> SampleWidth, nchannels |-> num_channels, framerate |-> sample_rate,
   frames |-> audio]

EmptyFile == [sampwidth |-> 0, nchannels |-> 0, framerate |-> 0, frames |-> << >>]

SaveSteps == {"none", "open", "write"}

\* save_audio: the recordings directory and the log of completed writes
\* after the call, and the exception it raised. `at` is the step that
\* raises e: aiofiles.open (nothing touched) or file.write (the file is
\* already created or truncated by mode "wb").
save_audio(server_name, audio, sample_rate, num_channels, now, at, e) ==
  IF Len(audio) > 0
    THEN LET name == FileName(server_name, now)
             wav == Wav(audio, sample_rate, num_channels)
         IN CASE at = "none" ->
                   [files |-> (name :> wav) @@ files,
                    written |-> Append(written, [name |-> name, wav |-> wav]),
                    exc |-> "none"]
              [] at = "open" -> [files |-> files, written |-> written, exc |-> e]
              [] at = "write" ->
                   [files |-> (name :> EmptyFile) @@ files, written |-> written, exc |-> e]
    ELSE [files |-> files, written |-> written, exc |-> "none"]

\* The audio buffer stage flushes and fires on_audio_data.
OnAudioData(s, ch, at, e) ==
  /\ pc[s] = "running"
  /\ nEv[s] < MaxEvents
  /\ (at = "none") = (e = "none")
  /\ nEv' = [nEv EXCEPT ![s] = @ + 1]
  /\ LET audio == bufs[bufOf[s]].data
     IN /\ bufs' = [bufs EXCEPT ![bufOf[s]].data = << >>]
        /\ LET r == save_audio("server_" \o port[s], audio, AudioSampleRate, ch, clock,
                                at, e)
           IN /\ (Len(audio) = 0 => at = "none")
              /\ files' = r.files
              /\ written' = r.written
              /\ TryExcept("on_audio_data", r.exc)
  /\ UNCHANGED <<pc, ws, port, received, botCalls, endpointExc, ctxOf, bufOf, taskOf,
                 nextId, lists, cancelBy, queued, connected, disconnected, clock>>

\* run_bot returns: its locals (messages, context, audio buffer, task and
\* the transport) are dropped with the frame.
Without(f, id) == [i \in DOMAIN f \ {id} |-> f[i]]

\* await runner.run(task) ends: it returns, or raises e; the transport may
\* have closed the socket on its way out. Then run_bot and the endpoint
\* return (the endpoint's `finally` only logs).
RunnerReturn(s, e, closes) ==
  /\ pc[s] = "running"
  /\ pc' = [pc EXCEPT ![s] = "done"]
  /\ ws' = [ws EXCEPT ![s] = IF closes THEN "closed" ELSE @]
  /\ endpointExc' =
       [endpointExc EXCEPT ![s] = IF e # "none" /\ ~ExceptCatches(e) THEN e ELSE @]
  /\ ctxOf' = [ctxOf EXCEPT ![s] = 0]
  /\ bufOf' = [bufOf EXCEPT ![s] = 0]
  /\ taskOf' = [taskOf EXCEPT ![s] = 0]
  /\ lists' = Without(lists, ctxOf[s])
  /\ bufs' = Without(bufs, bufOf[s])
  /\ cancelBy' = Without(cancelBy, taskOf[s])
  /\ queued' = [queued EXCEPT ![s] = 0]
  /\ connected' = [connected EXCEPT ![s] = FALSE]
  /\ disconnected' = [disconnected EXCEPT ![s] = FALSE]
  /\ nEv' = [nEv EXCEPT ![s] = 0]
  /\ UNCHANGED <<port, received, botCalls, nextId, cbResult, clock, files, written>>

Tick ==
  /\ clock < MaxClock
  /\ clock' = clock + 1
  /\ UNCHANGED <<pc, ws, port, received, botCalls, endpointExc, ctxOf, bufOf, taskOf,
                 nextId, lists, bufs, cancelBy, queued, connected, disconnected, nEv,
                 cbResult, files, written>>

\* The other two components at rest.
CallIdle ==
  /\ env = << >>
  /\ callLog = << >>
  /\ responses = << >>
  /\ callRaised = FALSE

CliIdle == cli = [pc |-> "idle"]

Init == StreamInit /\ CallIdle /\ CliIdle

Idle == UNCHANGED <<callVars, cliVars>>

\* WS /stream front door: every shape of initial message, the bridge, and
\* the ways a bridged session ends.
Next ==
  \/ \E s \in Sessions, p \in ClientPorts : Accept(s, p) /\ Idle
  \/ \E s \in Sessions, m \in Messages, fail \in {"none"} \cup SetupExceptions :
       ReceiveInitial(s, m, fail) /\ Idle
  \/ \E s \in Sessions, e \in {"none"} \cup Exceptions : OnClientDisconnected(s, e) /\ Idle
  \/ \E s \in Sessions, e \in {"none"} \cup Exceptions, closes \in BOOLEAN :
       RunnerReturn(s, e, closes) /\ Idle

Spec == Init /\ [][Next]_vars

\* A well-formed initial message carrying stream identifier v.
StartMessage(v) ==
  [type |-> "websocket.receive",
   text |-> [json |-> TRUE,
             doc |-> JObj(Field("event", JStr("start"))
                            @@ Field("start", JObj([streamId |-> v])))]]

\* Concurrent bridged sessions: every session runs its pipeline's events;
\* no call fails.
IsoNext ==
  \/ \E s \in Sessions : Accept(s, "50001") /\ Idle
  \/ \E s \in Sessions : ReceiveInitial(s, StartMessage(JStr("s1")), "none") /\ Idle
  \/ \E s \in Sessions : OnClientConnected(s, "none", "none") /\ Idle
  \/ \E s \in Sessions : OnClientDisconnected(s, "none") /\ Idle
  \/ \E s \in Sessions : TurnAppended(s, "user") /\ Idle
  \/ \E s \in Sessions : AudioBuffered(s, "a") /\ Idle
  \/ \E s \in Sessions : RunnerReturn(s, "none", TRUE) /\ Idle

IsoSpec == Init /\ [][IsoNext]_vars

\* Callbacks whose awaited calls may raise, in the first NumFailing
\* sessions.
FailingSessions == 1..NumFailing

PipeNext ==
  \/ \E s \in FailingSessions : Accept(s, "50001") /\ Idle
  \/ \E s \in FailingSessions : ReceiveInitial(s, StartMessage(JStr("s1")), "none") /\ Idle
  \/ \E s \in FailingSessions, at \in ConnectSteps, e \in {"none"} \cup CallbackExceptions :
       OnClientConnected(s, at, e) /\ Idle
  \/ \E s \in FailingSessions, e \in {"none"} \cup CallbackExceptions :
       OnClientDisconnected(s, e) /\ Idle
  \/ \E s \in FailingSessions, chunk \in Chunks : AudioBuffered(s, chunk) /\ Idle
  \/ \E s \in FailingSessions, ch \in Channels, at \in SaveSteps,
        e \in {"none"} \cup CallbackExceptions :
       OnAudioData(s, ch, at, e) /\ Idle
  \/ \E s \in FailingSessions, e \in {"none"} \cup CallbackExceptions :
       RunnerReturn(s, e, TRUE) /\ Idle

PipeSpec == Init /\ [][PipeNext]_vars

\* Audio archival: sessions that record and flush while the clock runs;
\* no call fails.
RecNext ==
  \/ \E s \in Sessions, p \in ClientPorts : Accept(s, p) /\ Idle
  \/ \E s \in Sessions : ReceiveInitial(s, StartMessage(JStr("s1")), "none") /\ Idle
  \/ \E s \in Sessions : OnClientConnected(s, "none", "none") /\ Idle
  \/ \E s \in Sessions, chunk \in Chunks : AudioBuffered(s, chunk) /\ Idle
  \/ \E s \in Sessions, ch \in Channels : OnAudioData(s, ch, "none", "none") /\ Idle
  \/ \E s \in Sessions : RunnerReturn(s, "none", TRUE) /\ Idle
  \/ Tick /\ Idle

RecSpec == Init /\ [][RecNext]_vars

\* ------------------------------------------- configuration, /start-call
PyStr(x) == [t |-> "str", v |-> x]
PyInt(digits) == [t |-> "int", digits |-> digits]

\* bool(v)
Truthy(v) ==
  CASE v.t = "none" -> FALSE
    [] v.t = "str" -> v.v # ""
    [] v.t = "int" -> v.digits # "0"

\* f"{v}"
Format(v) ==
  CASE v.t = "none" -> "None"
    [] v.t = "str" -> v.v
    [] v.t = "int" -> v.digits

EnvNames ==
  {"PLIVO_AUTH_ID", "PLIVO_AUTH_TOKEN", "PLIVO_FROM_NUMBER", "PLIVO_TO_NUMBER", "NGROK_URL",
   "PLIVO_ANSWER_XML"}

\* A variable is unset, set to the empty string, or set to a value.
EnvValues(name) == {PyNone, PyStr(""), PyStr("<" \o name \o ">")}

\* os.getenv(name, default)
getenv(name, default) == IF env[name] = PyNone THEN default ELSE env[name]

PLIVO_AUTH_ID == getenv("PLIVO_AUTH_ID", PyNone)
PLIVO_AUTH_TOKEN == getenv("PLIVO_AUTH_TOKEN", PyNone)
PLIVO_FROM_NUMBER == getenv("PLIVO_FROM_NUMBER", PyInt("918035737766"))
PLIVO_TO_NUMBER == getenv("PLIVO_TO_NUMBER", PyInt("919671454088"))
NGROK_URL == getenv("NGROK_URL", PyNone)
PLIVO_ANSWER_XML ==
  LET x == getenv("PLIVO_ANSWER_XML", PyNone)
  IN IF Truthy(x) THEN x ELSE PyStr(Format(NGROK_URL) \o "/webhook")

\* plivo_client: None, or a RestClient holding the credentials
plivo_client ==
  IF ~(\A v \in {PLIVO_AUTH_ID, PLIVO_AUTH_TOKEN, PLIVO_FROM_NUMBER, PLIVO_TO_NUMBER,
                 PLIVO_ANSWER_XML} : Truthy(v))
    THEN PyNone
    ELSE [t |-> "client", auth_id |-> PLIVO_AUTH_ID, auth_token |-> PLIVO_AUTH_TOKEN]

Uuids == {"abc-123", "def-456"}

\* What plivo_client.calls.create(...) does: it returns the provider's
\* response, or raises.
ProviderOutcomes ==
  {[kind |-> "return",
    body |-> [request_uuid |-> u, api_id |-> "api-" \o u, message |-> "call fired"]] :
     u \in Uuids}
    \cup {[kind |-> "raise", exc |-> [cls |-> c, msg |-> m]] :
            c \in {"PlivoRestError"}, m \in {"401 unauthorized", "timed out"}}

\* str(e)
StrExc(e) == e.msg

WrongIdBody(response) == [status |-> "success", call_uuid |-> response["api_id"]]
SuccessBody(response) == [status |-> "success", call_uuid |-> response["request_uuid"]]

ErrorBody(message) == [status |-> "error", message |-> message]

CallInit ==
  /\ env \in {f \in [EnvNames -> UNION {EnvValues(n) : n \in EnvNames}] :
                \A n \in EnvNames : f[n] \in EnvValues(n)}
  /\ callLog = << >>
  /\ responses = << >>
  /\ callRaised = FALSE

\* POST /start-call
start_plivo_call(o) ==
  /\ Len(responses) < MaxCalls
  /\ IF plivo_client = PyNone
       THEN /\ responses' = Append(responses, ErrorBody("Plivo client not configured"))
            /\ UNCHANGED <<callLog, callRaised>>
       ELSE /\ callLog' =
                 Append(callLog,
                        [from_ |-> PLIVO_FROM_NUMBER, to_ |-> PLIVO_TO_NUMBER,
                         answer_url |-> PLIVO_ANSWER_XML, answer_method |-> "POST",
                         outcome |-> o])
            /\ IF o.kind = "return"
                 THEN /\ responses' = Append(responses, SuccessBody(o.body))
                      /\ UNCHANGED callRaised
                 ELSE IF ExceptCatches(o.exc.cls)
                   THEN /\ responses' = Append(responses, ErrorBody(StrExc(o.exc)))
                        /\ UNCHANGED callRaised
                   ELSE /\ callRaised' = TRUE
                        /\ UNCHANGED responses
  /\ UNCHANGED env

CallNext == \E o \in ProviderOutcomes : start_plivo_call(o) /\ UNCHANGED <<streamVars, cliVars>>

CallStart == CallInit /\ StreamInit /\ CliIdle

CallSpec == CallStart /\ [][CallNext]_vars

\* ------------------------------------------------------------ CLI caller
\* Strings the CLI takes apart are sequences of characters.
Chars(c) == [t |-> "str", chars |-> c]

\* bool(s) for None or a string
NonEmpty(v) == v.t = "str" /\ v.chars # << >>

RECURSIVE rstrip(_, _)
\* s.rstrip(c)
rstrip(s, c) ==
  IF s # << >> /\ s[Len(s)] = c THEN rstrip(SubSeq(s, 1, Len(s) - 1), c) ELSE s

DefaultServerUrl == <<"http://localhost:8765">>

PhoneNumbers == {"+15550100", "15550100"}
UrlArgs == {PyNone, Chars(<< >>), Chars(<<"http://a">>), Chars(<<"http://a", "/", "/">>)}
ServerUrlEnv == {PyNone, Chars(<< >>), Chars(<<"http://b", "/">>)}

\* What the server's JSON body may be (response.json()).
Bodies ==
  {[json |-> FALSE],
   [json |-> TRUE, doc |-> << >>],
   [json |-> TRUE, doc |-> [call_sid |-> "CA1"]],
   [json |-> TRUE, doc |-> [status |-> "success", call_uuid |-> "abc-123"]],
   [json |-> TRUE, doc |-> [status |-> "error", message |-> "Plivo client not configured"]],
   [json |-> TRUE, doc |-> [detail |-> "Not Found"]]}

\* requests.post(url): a RequestException before any response (no
\* connection, or a URL without scheme and host), or a response.
HttpOutcomes ==
  {[kind |-> "connection_error"]}
    \cup {[kind |-> "response", status |-> st, body |-> b] : st \in {200, 404, 500}, b \in Bodies}

\* response.raise_for_status() raises HTTPError
RaisesForStatus(status) == 400 =< status /\ status < 600

\* server_url.rstrip("/") after the None default
BaseUrl(server_url) ==
  rstrip(IF server_url = PyNone THEN DefaultServerUrl ELSE server_url.chars, "/")

\* make_call: what it prints and returns (PyNone, or the parsed body).
make_call(phone_number, server_url, o) ==
  LET url == BaseUrl(server_url) \o <<"/call/", phone_number>>
      failed ==
        \/ o.kind = "connection_error"
        \/ RaisesForStatus(o.status)
        \/ ~o.body.json
      printed ==
        IF failed
          THEN <<"Error making call">>
                 \o (IF o.kind = "response" /\ RaisesForStatus(o.status)
                       THEN <<"Response">>
                       ELSE << >>)
          ELSE << >>
  IN [url |-> url, out |-> printed,
      result |-> IF failed THEN PyNone ELSE [t |-> "dict", doc |-> o.body.doc]]

\* result.get('call_sid')
GetCallSid(doc) == IF "call_sid" \in DOMAIN doc THEN doc["call_sid"] ELSE "None"

CliInit ==
  cli \in [pc : {"start"}, phone_number : PhoneNumbers, url : UrlArgs,
           SERVER_URL : ServerUrlEnv]

\* main(), from argument parsing to exit
main(o) ==
  /\ cli.pc = "start"
  /\ LET server_url ==
           IF NonEmpty(cli.url) THEN cli.url
           ELSE IF cli.SERVER_URL = PyNone THEN Chars(DefaultServerUrl)
           ELSE cli.SERVER_URL
         r == make_call(cli.phone_number, server_url, o)
         ok == r.result # PyNone /\ DOMAIN r.result.doc # {}
     IN /\ BaseUrl(server_url) = << >> => o.kind = "connection_error"
        /\ cli' =
          [pc |-> "exited", phone_number |-> cli.phone_number, url |-> cli.url,
           SERVER_URL |-> cli.SERVER_URL, http |-> o, request |-> r.url,
           stdout |->
             r.out \o (IF ok
                         THEN <<"Call initiated successfully! Call SID: "
                                  \o GetCallSid(r.result.doc)>>
                         ELSE <<"Failed to initiate call.">>),
           exit |-> IF ok THEN 0 ELSE 1]

CliNext == \E o \in HttpOutcomes : main(o) /\ UNCHANGED <<streamVars, callVars>>

CliStart == CliInit /\ StreamInit /\ CallIdle

CliSpec == CliStart /\ [][CliNext]_vars

\* ================================================================ claims

\* The claim's well-formed initial message:
\* {"event": "start", "start": {"streamId": s}}
IsValidStart(m) ==
  /\ "text" \in DOMAIN m
  /\ m.text # PyNone
  /\ m.text.json
  /\ m.text.doc.t = "obj"
  /\ "event" \in DOMAIN m.text.doc.f
  /\ m.text.doc.f["event"] = JStr("start")
  /\ "start" \in DOMAIN m.text.doc.f
  /\ m.text.doc.f["start"].t = "obj"
  /\ "streamId" \in DOMAIN m.text.doc.f["start"].f

StreamIdOf(m) == m.text.doc.f["start"].f["streamId"]

HasRead(s) == received[s] # NoMsg

\* C1: for every initial message that is malformed or whose event is not
\* "start", run_bot is never invoked and the handler ends with the
\* connection closed.
C1_RejectedClosesWithoutBridge ==
  \A s \in Sessions :
    (pc[s] = "done" /\ HasRead(s) /\ ~IsValidStart(received[s]))
      => (botCalls[s] = << >> /\ ws[s] = "closed")

\* The half of C1 the handler does keep: a rejected message never reaches
\* run_bot.
C1_RejectedNeverBridged ==
  \A s \in Sessions : (HasRead(s) /\ ~IsValidStart(received[s])) => botCalls[s] = << >>

\* C4: on every exit path of a stream session the WebSocket is closed by
\* the time the handler has exited.
C4_SocketClosedOnExit == \A s \in Sessions : pc[s] = "done" => ws[s] = "closed"

\* C6: for every valid initial message {event: "start", start: {streamId:
\* s}} the handler invokes run_bot exactly once, with stream identifier s.
C6_BridgeOnceWithStreamId ==
  \A s \in Sessions :
    (HasRead(s) /\ IsValidStart(received[s])) => botCalls[s] = <<StreamIdOf(received[s])>>

C6_Witness ==
  \E s \in Sessions :
    /\ pc[s] = "done"
    /\ received[s] = StartMessage(JStr("s2"))
    /\ botCalls[s] = <<JStr("s2")>>

Running(s) == pc[s] = "running"

\* C7: a client disconnect on session s requests cancellation of the
\* pipeline task of s and of no other session.
C7_CancelOwnTaskOnly ==
  \A s \in Sessions :
    Running(s) =>
      /\ taskOf[s] \in DOMAIN cancelBy
      /\ cancelBy[taskOf[s]] \subseteq {s}
      /\ disconnected[s] => s \in cancelBy[taskOf[s]]

C7_Witness ==
  \E s, t \in Sessions :
    /\ s # t
    /\ Running(s) /\ Running(t)
    /\ disconnected[s] /\ cancelBy[taskOf[s]] = {s}
    /\ ~disconnected[t] /\ cancelBy[taskOf[t]] = {}

\* Session t takes a step: one of its events or handler steps happens.
Acting(t) ==
  \/ pc'[t] # pc[t]
  \/ nEv'[t] # nEv[t]
  \/ connected'[t] # connected[t]
  \/ disconnected'[t] # disconnected[t]

OwnObjects ==
  \A s \in Sessions :
    Running(s) =>
      /\ ctxOf[s] \in DOMAIN lists
      /\ bufOf[s] \in DOMAIN bufs
      /\ \A t \in Sessions \ {s} : Running(t) => ctxOf[t] # ctxOf[s] /\ bufOf[t] # bufOf[s]

OthersUntouched ==
  \A t \in Sessions :
    (Running(t) /\ ~Acting(t)) =>
      /\ ctxOf'[t] = ctxOf[t] /\ bufOf'[t] = bufOf[t]
      /\ lists'[ctxOf[t]] = lists[ctxOf[t]]
      /\ bufs'[bufOf[t]] = bufs[bufOf[t]]

\* C8: each active session has one conversation context and one audio
\* buffer of its own, shared with no other session, and an event in one
\* session leaves every other session's context and buffer unchanged.
C8_SessionsShareNothing == [](OwnObjects) /\ [][OthersUntouched]_vars

C8_Witness ==
  \E s, t \in Sessions :
    /\ s # t
    /\ Running(s) /\ Running(t)
    /\ lists[ctxOf[s]] = <<"system", "introduce", "user">>
    /\ lists[ctxOf[t]] = <<"system">>
    /\ bufs[bufOf[s]].data = <<"a">>
    /\ bufs[bufOf[t]].data = << >>

\* C10 as stated: each callback catches every exception raised inside it,
\* so nothing ever propagates out of a callback.
C10_CallbacksCatchEverything == cbResult.out = "returned"

\* C10 amended: each callback catches every exception derived from
\* Exception raised inside it; only an exception outside that class
\* (asyncio.CancelledError) propagates out of a callback.
C10_CallbacksCatchExceptions ==
  /\ (cbResult.raised # "none" /\ IsException(cbResult.raised)) => cbResult.out = "returned"
  /\ cbResult.out = "propagated" => cbResult.raised = "CancelledError"

C10_Witness ==
  \E s \in Sessions :
    /\ Running(s)
    /\ cbResult = [cb |-> "on_audio_data", raised |-> "OSError", out |-> "returned"]

\* C5: every flush with non-empty audio produces its own recording file:
\* the files are as many as the completed non-empty flushes, and each
\* still holds what its flush wrote.
C5_OneFilePerFlush ==
  /\ Cardinality(DOMAIN files) = Len(written)
  /\ \A i \in 1..Len(written) : files[written[i].name] = written[i].wav

Unset(n) == env # << >> /\ env[n] = PyNone

RequiredUnset ==
  \/ Unset("PLIVO_AUTH_ID")
  \/ Unset("PLIVO_AUTH_TOKEN")
  \/ Unset("PLIVO_FROM_NUMBER")
  \/ Unset("PLIVO_TO_NUMBER")
  \/ (Unset("PLIVO_ANSWER_XML") /\ Unset("NGROK_URL"))

\* C2: if any required configuration value is unset at startup, every
\* POST /start-call returns a structured error and no request is issued to
\* the telephony provider.
C2_UnsetDisablesCalls ==
  RequiredUnset =>
    /\ callLog = << >>
    /\ \A i \in 1..Len(responses) : responses[i].status = "error"

\* C3: POST /start-call never raises; when create-call returns, the
\* response is {success, call_uuid = the provider's request_uuid}; when it
\* raises, {error, message}; nothing else.
C3_StartCallOutcomes ==
  /\ ~callRaised
  /\ Len(callLog) \in {0, Len(responses)}
  /\ \A i \in 1..Len(callLog) :
       LET o == callLog[i].outcome
       IN IF o.kind = "return"
            THEN responses[i] = [status |-> "success", call_uuid |-> o.body.request_uuid]
            ELSE responses[i] = [status |-> "error", message |-> o.exc.msg]
  /\ callLog = << >> =>
       \A i \in 1..Len(responses) :
         responses[i] = [status |-> "error", message |-> "Plivo client not configured"]

C3_Witness ==
  /\ Len(callLog) = 2
  /\ responses = <<[status |-> "success", call_uuid |-> "abc-123"],
                   [status |-> "error", message |-> "timed out"]>>

RequestFailed(o) == o.kind = "connection_error" \/ ~(200 =< o.status /\ o.status < 300)

\* The server answered with a call identifier, under either key.
AnswersWithId(o) ==
  /\ ~RequestFailed(o)
  /\ o.body.json
  /\ DOMAIN o.body.doc \cap {"call_sid", "call_uuid"} # {}

AnsweredId(o) ==
  IF "call_sid" \in DOMAIN o.body.doc THEN o.body.doc["call_sid"] ELSE o.body.doc["call_uuid"]

\* C9: the CLI exits 1 and prints an error whenever the request fails, and
\* whenever the server answers with a call identifier it prints that
\* identifier and exits 0.
C9_CliReportsOutcome ==
  cli.pc = "exited" =>
    /\ RequestFailed(cli.http) => (cli.exit = 1 /\ cli.stdout[1] = "Error making call")
    /\ AnswersWithId(cli.http) =>
         /\ cli.exit = 0
         /\ cli.stdout[Len(cli.stdout)]
              = "Call initiated successfully! Call SID: " \o AnsweredId(cli.http)

====
